---- MODULE Spec2Model ----
(***************************************************************************)
(* POSM cost calculator (cost_calc_improved.py, app.py).                   *)
(*                                                                         *)
(* A DataFrame is a set of records (one record per row, unique on its      *)
(* key columns); fact_display, whose rows may repeat, is a sequence of     *)
(* records, the position being the DataFrame index.  A missing cell (NaN)  *)
(* is None for a text column and NaN for a numeric one.  calculate_posm_   *)
(* report is one synchronous call: its intermediate tables are operators   *)
(* over the uploaded tables, and the call is one step of the machine.      *)
(***************************************************************************)
EXTENDS Integers, Sequences, FiniteSets, TLC

VARIABLES
    fact_display,           \* uploaded table: <<[shop, model, quantity]>>
    dim_storelist,          \* uploaded table: {[shop, Province]}
    dim_model,              \* uploaded table: {[model, priority]}
    dim_posm,               \* uploaded sheet 'posm': {[model, posm]}
    price_posm,             \* uploaded sheet 'price': {[posm, name, range, price]}
    final_df,               \* first component returned by calculate_posm_report
    province_summary_df,    \* second component returned by calculate_posm_report
    pc,                     \* position of the app callback
    shown,                  \* what the app presents
    call                    \* a direct call of one of the helper functions

vars == <<fact_display, dim_storelist, dim_model, dim_posm, price_posm,
          final_df, province_summary_df, pc, shown, call>>

report_vars == <<fact_display, dim_storelist, dim_model, dim_posm, price_posm,
                 final_df, province_summary_df, pc, shown>>

----------------------------------------------------------------------------
(* Bounds *)

\* rows of fact_display
MaxRows == 2
\* largest quantity handed to a helper function called directly
MaxQty == 5100
\* largest adjusted quantity handed to calculate_send_quantity called directly
MaxSendQty == 340

----------------------------------------------------------------------------
(* Encodings *)

\* a missing text cell / Python's None
None == "None"
\* a missing numeric cell (the priority of a model the left merge did not match,
\* or whose cell is empty); groupby drops it, it never reaches arithmetic
NaN == -2
\* float('inf'), the upper end of the last price range
Infinity == -1

Min(S) == CHOOSE x \in S : \A y \in S : x <= y
Max2(a, b) == IF a >= b THEN a ELSE b
Min2(a, b) == IF a <= b THEN a ELSE b
\* math.ceil(a / b) for integers a >= 0, b > 0
CeilDiv(a, b) == (a + b - 1) \div b

----------------------------------------------------------------------------
(* Constants of cost_calc_improved.py *)

\* BUFFER_MULTIPLIER = 1.3, as the fraction BufferNum / BufferDen
BufferNum == 13
BufferDen == 10
MINIMUM_QUANTITY == 210

PRICE_RANGES == <<
    [min_val |-> 0,    max_val |-> 200,      range_name |-> "<200"],
    [min_val |-> 201,  max_val |-> 500,      range_name |-> "201-500"],
    [min_val |-> 501,  max_val |-> 1000,     range_name |-> "501-1000"],
    [min_val |-> 1001, max_val |-> 2000,     range_name |-> "1001 - 2000"],
    [min_val |-> 2001, max_val |-> 3000,     range_name |-> "2001 - 3000"],
    [min_val |-> 3001, max_val |-> 4000,     range_name |-> "3001 - 4000"],
    [min_val |-> 4001, max_val |-> 5000,     range_name |-> "4001 - 5000"],
    [min_val |-> 5001, max_val |-> Infinity, range_name |-> ">5000"] >>

----------------------------------------------------------------------------
(* Helper functions *)

\* math.ceil((qty * 1.3) / 10) * 10 in IEEE doubles.  The double nearest 1.3
\* exceeds 1.3 by less than 2^-54 relative, so qty * 1.3 rounds to the exact
\* product when that is an integer, and 13*qty/100 is otherwise at least 1/100
\* away from an integer: the ceiling is that of the exact quotient.
BufferedRoundUp10(qty) == CeilDiv(qty * BufferNum, BufferDen * 10) * 10

ApplyRulesNoMinimum(qty, priority) ==
    IF priority = 1 THEN BufferedRoundUp10(qty) ELSE CeilDiv(qty, 5) * 5

ApplyRulesRoundDown(qty, priority) ==
    IF priority = 1
    THEN Max2(BufferedRoundUp10(qty), MINIMUM_QUANTITY)
    ELSE (qty \div 5) * 5

apply_quantity_rules(qty, priority) ==
    IF priority = 1
    THEN Max2(BufferedRoundUp10(qty), MINIMUM_QUANTITY)
    ELSE CeilDiv(qty, 5) * 5

\* min_val <= quantity <= max_val for the i-th range
InPriceRange(i, quantity) ==
    /\ PRICE_RANGES[i].min_val <= quantity
    /\ \/ PRICE_RANGES[i].max_val = Infinity
       \/ quantity <= PRICE_RANGES[i].max_val

GetPriceRangeExclusiveUpper(quantity) ==
    LET hits == {i \in DOMAIN PRICE_RANGES :
                    /\ PRICE_RANGES[i].min_val <= quantity
                    /\ \/ PRICE_RANGES[i].max_val = Infinity
                       \/ quantity < PRICE_RANGES[i].max_val}
    IN  IF hits = {} THEN PRICE_RANGES[Len(PRICE_RANGES)].range_name
        ELSE PRICE_RANGES[Min(hits)].range_name

get_price_range(quantity) ==
    LET hits == {i \in DOMAIN PRICE_RANGES : InPriceRange(i, quantity)}
    IN  IF hits = {} THEN PRICE_RANGES[Len(PRICE_RANGES)].range_name
        ELSE PRICE_RANGES[Min(hits)].range_name

\* price_row['price'].values[0] is the first matching row; the price table holds
\* at most one row per (posm, range)
calculate_price(posm_type, quantity, price_df) ==
    LET range_col == get_price_range(quantity)
        price_row == {r \in price_df : r.posm = posm_type /\ r.range = range_col}
    IN  IF price_row # {}
        THEN LET unit_price == (CHOOSE r \in price_row : TRUE).price
             IN  [total_cost |-> unit_price * quantity, unit_price |-> unit_price]
        ELSE [total_cost |-> 0, unit_price |-> 0]

\* int(quantity * 0.7) in IEEE doubles.  The double nearest 0.7 is
\* 0.7 - 0.4 * 2^-53.  When 7*quantity/10 is not an integer the error is far
\* from deciding the truncation.  When quantity = 10k the exact product is
\* 7k - 4k * 2^-53, which rounds to 7k unless 4k * 2^-53 exceeds half the
\* spacing 2^(e-52) of the doubles below 7k (2^e <= 7k < 2^(e+1)); then the
\* product is below 7k and int() yields 7k - 1 (90 -> 62, 330 -> 230).
TruncationLoss(n) ==
    \E e \in 0..24 : 4 * n > 7 * (2 ^ e) /\ n < 2 ^ (e + 1)

IntSeventyPercent(quantity) ==
    IF quantity % 10 = 0 /\ TruncationLoss((7 * quantity) \div 10)
    THEN (7 * quantity) \div 10 - 1
    ELSE (7 * quantity) \div 10

\* the 70% figure rounded up to 10 first, the bounds applied to the rounded value
SendRoundThenClamp(quantity, original_quantity) ==
    Min2(Max2(CeilDiv(7 * quantity, 100) * 10, original_quantity), quantity)

calculate_send_quantity(quantity, original_quantity) ==
    LET send1 == IntSeventyPercent(quantity)
        send2 == Max2(send1, original_quantity)
        send3 == IF send2 % 10 # 0 THEN CeilDiv(send2, 10) * 10 ELSE send2
    IN  Min2(send3, quantity)

----------------------------------------------------------------------------
(* DataFrame helpers *)

\* column col summed over the rows of a table
RECURSIVE SumCol(_, _)
SumCol(rows, col) ==
    IF rows = {} THEN 0
    ELSE LET r == CHOOSE x \in rows : TRUE
         IN  r[col] + SumCol(rows \ {r}, col)

\* a DataFrame has a column when every row carries it (an empty frame read
\* from a sheet still has its header)
HasColumn(table, col) == \A r \in table : col \in DOMAIN r

\* what calculate_posm_report returns in one position: a DataFrame or None
DataFrame(rows) == [kind |-> "DataFrame", rows |-> rows]
NoneValue == [kind |-> "None", rows |-> {}]
Unset == [kind |-> "unset", rows |-> {}]
IsNone(x) == x.kind = "None"
IsFrame(x) == x.kind = "DataFrame"

----------------------------------------------------------------------------
(* calculate_posm_report: POSM-level demand *)

\* fact_display with its index
DisplayRows ==
    {[index |-> i, shop |-> fact_display[i].shop, model |-> fact_display[i].model,
      quantity |-> fact_display[i].quantity] : i \in DOMAIN fact_display}

model_quantity ==
    {[model |-> m, quantity |-> SumCol({r \in DisplayRows : r.model = m}, "quantity")] :
        m \in {r.model : r \in DisplayRows}}

\* left merge on 'model' with dim_model[['model', 'priority']]
model_quantity_with_priority ==
    UNION {LET match == {d \in dim_model : d.model = r.model}
           IN  IF match = {}
               THEN {[model |-> r.model, quantity |-> r.quantity, priority |-> NaN]}
               ELSE {[model |-> r.model, quantity |-> r.quantity,
                      priority |-> d.priority] : d \in match} :
           r \in model_quantity}

\* left merge on 'model' with dim_posm
model_posm ==
    UNION {LET match == {d \in dim_posm : d.model = r.model}
           IN  IF match = {}
               THEN {[model |-> r.model, quantity |-> r.quantity,
                      priority |-> r.priority, posm |-> None]}
               ELSE {[model |-> r.model, quantity |-> r.quantity,
                      priority |-> r.priority, posm |-> d.posm] : d \in match} :
           r \in model_quantity_with_priority}

\* groupby(['posm', 'priority'])['quantity'].sum(): rows with a missing key are dropped
posm_by_priority ==
    LET rows == {r \in model_posm : r.posm # None /\ r.priority # NaN}
    IN  {[posm |-> k[1], priority |-> k[2],
          quantity |-> SumCol({r \in rows : r.posm = k[1] /\ r.priority = k[2]},
                              "quantity")] :
            k \in {<<r.posm, r.priority>> : r \in rows}}

\* the loop over posm_data.iterrows() adding apply_quantity_rules(qty, priority)
RECURSIVE SumAdjusted(_)
SumAdjusted(posm_data) ==
    IF posm_data = {} THEN 0
    ELSE LET row == CHOOSE x \in posm_data : TRUE
         IN  apply_quantity_rules(row.quantity, row.priority)
                 + SumAdjusted(posm_data \ {row})

\* the rule of the highest priority present, applied once to the total
AdjustedOfTotal(posm_data) ==
    apply_quantity_rules(SumCol(posm_data, "quantity"),
                         Min({row.priority : row \in posm_data}))

PosmQuantityListSumFirst ==
    {LET posm_data == {r \in posm_by_priority : r.posm = posm_type}
     IN  [posm |-> posm_type,
          original_quantity |-> SumCol(posm_data, "quantity"),
          quantity |-> AdjustedOfTotal(posm_data)] :
        posm_type \in {r.posm : r \in posm_by_priority}}

posm_quantity_list ==
    {LET posm_data == {r \in posm_by_priority : r.posm = posm_type}
     IN  [posm |-> posm_type,
          original_quantity |-> SumCol(posm_data, "quantity"),
          quantity |-> SumAdjusted(posm_data)] :
        posm_type \in {r.posm : r \in posm_by_priority}}

\* price_posm.drop_duplicates(subset=['posm']) left-merged on 'posm': the name of
\* the first price row of the POSM type, NaN when the type has no price row
PosmName(posm_type, price_df) ==
    IF \E r \in price_df : r.posm = posm_type
    THEN (CHOOSE r \in price_df : r.posm = posm_type).name
    ELSE None

posm_quantity(price_df) ==
    {[posm |-> r.posm, name |-> PosmName(r.posm, price_df),
      original_quantity |-> r.original_quantity, quantity |-> r.quantity] :
        r \in posm_quantity_list}

----------------------------------------------------------------------------
(* calculate_posm_report: province-level demand and allocation *)

\* left merge of fact_display with dim_storelist on 'shop'
display_with_store ==
    UNION {LET match == {d \in dim_storelist : d.shop = r.shop}
           IN  IF match = {}
               THEN {[index |-> r.index, shop |-> r.shop, model |-> r.model,
                      quantity |-> r.quantity, Province |-> None]}
               ELSE {[index |-> r.index, shop |-> r.shop, model |-> r.model,
                      quantity |-> r.quantity, Province |-> d.Province] : d \in match} :
           r \in DisplayRows}

\* groupby(['Province', 'model'])['quantity'].sum(): a missing Province is dropped
province_model_qty ==
    LET rows == {r \in display_with_store : r.Province # None}
    IN  {[Province |-> k[1], model |-> k[2],
          quantity |-> SumCol({r \in rows : r.Province = k[1] /\ r.model = k[2]},
                              "quantity")] :
            k \in {<<r.Province, r.model>> : r \in rows}}

\* the two left merges on 'model': priority from dim_model, posm from dim_posm
province_posm ==
    UNION {LET pmatch == {d \in dim_model : d.model = r.model}
               prios == IF pmatch = {} THEN {NaN} ELSE {d.priority : d \in pmatch}
               qmatch == {d \in dim_posm : d.model = r.model}
               posms == IF qmatch = {} THEN {None} ELSE {d.posm : d \in qmatch}
           IN  {[Province |-> r.Province, model |-> r.model, quantity |-> r.quantity,
                 priority |-> pr, posm |-> po] : pr \in prios, po \in posms} :
           r \in province_model_qty}

\* one entry per (Province, posm, priority) group, the rule applied to the group total
province_posm_qty_list ==
    LET rows == {r \in province_posm : r.posm # None /\ r.priority # NaN}
    IN  {LET total_qty == SumCol({r \in rows : /\ r.Province = k[1]
                                              /\ r.posm = k[2]
                                              /\ r.priority = k[3]}, "quantity")
         IN  [Province |-> k[1], posm |-> k[2], priority |-> k[3],
              original_quantity |-> total_qty,
              adjusted_quantity |-> apply_quantity_rules(total_qty, k[3])] :
            k \in {<<r.Province, r.posm, r.priority>> : r \in rows}}

\* groupby(['Province', 'posm']).agg(sum): the priorities of a province combined
province_posm_qty ==
    {LET grp == {r \in province_posm_qty_list : r.Province = k[1] /\ r.posm = k[2]}
     IN  [Province |-> k[1], posm |-> k[2],
          original_quantity |-> SumCol(grp, "original_quantity"),
          adjusted_quantity |-> SumCol(grp, "adjusted_quantity")] :
        k \in {<<r.Province, r.posm>> : r \in province_posm_qty_list}}

\* province_qty / total_province_need * 100, kept as the exact fraction num / den
Percentage(province_qty, total_province_need) ==
    IF total_province_need > 0
    THEN [num |-> province_qty * 100, den |-> total_province_need]
    ELSE [num |-> 0, den |-> 1]

\* a share of the POSM-level adjusted quantity in proportion to the province's need
ProportionalAllocation(province_adjusted_qty, province_qty, total_province_need, adjusted_qty) ==
    IF total_province_need > 0
    THEN (adjusted_qty * province_qty) \div total_province_need
    ELSE 0

\* "Use the adjusted quantity for allocation"
province_allocation(province_adjusted_qty, province_qty, total_province_need, adjusted_qty) ==
    province_adjusted_qty

province_summary_data(price_df) ==
    LET by_province == province_posm_qty
    IN  UNION {LET provinces_for_posm == {q \in by_province : q.posm = row.posm}
                   total_province_need ==
                       SumCol(provinces_for_posm, "original_quantity")
               IN  {[Province |-> prov_row.Province,
                     posm |-> row.posm,
                     posm_name |-> row.name,
                     needed_quantity |-> prov_row.original_quantity,
                     percentage_of_total |->
                         Percentage(prov_row.original_quantity, total_province_need),
                     allocated_quantity |->
                         province_allocation(prov_row.adjusted_quantity,
                                             prov_row.original_quantity,
                                             total_province_need, row.quantity)] :
                      prov_row \in provinces_for_posm} :
               row \in posm_quantity(price_df)}

\* posm_send_quantities[posm_type]: 0, plus the allocation of every province row
\* appended to province_summary_data for the POSM type
posm_send_quantities(posm_type, summary) ==
    SumCol({a \in summary : a.posm = posm_type}, "allocated_quantity")

----------------------------------------------------------------------------
(* calculate_posm_report: results *)

\* the province allocations ignored: always the standalone 70% rule
SendQuantityAlwaysFallback(posm_send, original_qty, adjusted_qty) ==
    calculate_send_quantity(adjusted_qty, original_qty)

SendQuantityNoUpperClamp(posm_send, original_qty, adjusted_qty) ==
    IF posm_send > 0
    THEN Max2(posm_send, original_qty)
    ELSE calculate_send_quantity(adjusted_qty, original_qty)

send_quantity(posm_send, original_qty, adjusted_qty) ==
    IF posm_send > 0
    THEN Min2(Max2(posm_send, original_qty), adjusted_qty)
    ELSE calculate_send_quantity(adjusted_qty, original_qty)

\* the summary inner-joined with the price table: unpriced rows are lost
ResultsDropUnpriced(price_df) ==
    LET summary == province_summary_data(price_df)
    IN  {LET send_qty == send_quantity(posm_send_quantities(row.posm, summary),
                                       row.original_quantity, row.quantity)
             adj == calculate_price(row.posm, row.quantity, price_df)
             orig == calculate_price(row.posm, row.original_quantity, price_df)
         IN  [posm |-> row.posm,
              name |-> row.name,
              original_quantity |-> row.original_quantity,
              quantity |-> row.quantity,
              send |-> send_qty,
              backup |-> row.quantity - send_qty,
              original_unit_price |-> orig.unit_price,
              unit_price |-> adj.unit_price,
              original_total_cost |-> orig.total_cost,
              total_cost |-> adj.total_cost] :
            row \in {x \in posm_quantity(price_df) :
                        \E r \in price_df :
                            /\ r.posm = x.posm
                            /\ r.range = get_price_range(x.quantity)}}

results(price_df) ==
    LET summary == province_summary_data(price_df)
    IN  {LET send_qty == send_quantity(posm_send_quantities(row.posm, summary),
                                       row.original_quantity, row.quantity)
             adj == calculate_price(row.posm, row.quantity, price_df)
             orig == calculate_price(row.posm, row.original_quantity, price_df)
         IN  [posm |-> row.posm,
              name |-> row.name,
              original_quantity |-> row.original_quantity,
              quantity |-> row.quantity,
              send |-> send_qty,
              backup |-> row.quantity - send_qty,
              original_unit_price |-> orig.unit_price,
              unit_price |-> adj.unit_price,
              original_total_cost |-> orig.total_cost,
              total_cost |-> adj.total_cost] :
            row \in posm_quantity(price_df)}

\* the statements of the try block that raise (KeyError), on tables whose other
\* columns are present:
\*   groupby(['posm', 'priority']) when the 'posm' sheet has no 'posm' column;
\*   pd.merge(posm_quantity, ..., on='posm') when posm_quantity_list is empty,
\*     pd.DataFrame([]) having no columns;
\*   groupby(['Province', 'posm']) when province_posm_qty_list is empty.
Raises ==
    \/ ~HasColumn(dim_posm, "posm")
    \/ posm_quantity_list = {}
    \/ province_posm_qty_list = {}

ErrorReturnKeepsFinal == [final_df |-> DataFrame({}), province_summary_df |-> NoneValue]

\* except Exception: return None, None
ErrorReturn == [final_df |-> NoneValue, province_summary_df |-> NoneValue]

calculate_posm_report(price_df) ==
    IF Raises
    THEN ErrorReturn
    ELSE [final_df |-> DataFrame(results(price_df)),
          province_summary_df |-> DataFrame(province_summary_data(price_df))]

----------------------------------------------------------------------------
(* The uploaded tables *)

Shops == <<"S1", "S2">>
ModelNames == <<"M1", "M2">>
Quantities == <<0, 3, 50, 100>>

\* the c-th kind of display row, c in 0 .. NumRowKinds - 1
NumRowKinds == Len(Shops) * Len(ModelNames) * Len(Quantities)
RowKind(c) ==
    [shop |-> Shops[(c \div (Len(ModelNames) * Len(Quantities))) + 1],
     model |-> ModelNames[((c \div Len(Quantities)) % Len(ModelNames)) + 1],
     quantity |-> Quantities[(c % Len(Quantities)) + 1]]

\* fact_display: up to MaxRows rows.  Every table derived from it is a grouped
\* sum, so the order of the rows does not matter and one order stands for all.
DisplayTables ==
    UNION {{[i \in 1..n |-> RowKind(f[i])] :
                f \in {g \in [1..n -> 0..(NumRowKinds - 1)] :
                          \A i \in 1..n, j \in 1..n : i <= j => g[i] <= g[j]}} :
           n \in 0..MaxRows}

\* dim_storelist: S1 is in R1; S2 is in R2 or not in the list
StoreTables ==
    {{[shop |-> "S1", Province |-> "R1"]} \cup extra :
        extra \in {{}, {[shop |-> "S2", Province |-> "R2"]}}}

\* dim_model: M1 has priority 1; M2 has priority 1, 2, 3 or an empty cell
ModelTables ==
    {{[model |-> "M1", priority |-> 1], [model |-> "M2", priority |-> p]} :
        p \in {1, 2, 3, NaN}}

\* sheet 'posm': M1 needs P1; M2 needs P1, P2 or nothing; or the sheet has no
\* 'posm' column
PosmTables ==
    {{[model |-> "M1", posm |-> "P1"]} \cup extra :
        extra \in {{}, {[model |-> "M2", posm |-> "P1"]},
                       {[model |-> "M2", posm |-> "P2"]}}}
    \cup {{[model |-> "M1"], [model |-> "M2"]}}

\* sheet 'price': the rows of a full table
PriceRows ==
    {[posm |-> "P1", name |-> "Poster", range |-> "<200", price |-> 6],
     [posm |-> "P1", name |-> "Poster", range |-> "201-500", price |-> 5],
     [posm |-> "P2", name |-> "Standee", range |-> "201-500", price |-> 4]}

\* the full table; the table without P1's 201-500 tier; P1's 201-500 tier alone
PriceTables ==
    {PriceRows,
     {r \in PriceRows : ~(r.posm = "P1" /\ r.range = "201-500")},
     {r \in PriceRows : r.posm = "P1" /\ r.range = "201-500"}}

NoCall == [fn |-> "none", quantity |-> 0, original |-> 0, priority |-> 1, ret |-> 0, range |-> ""]

----------------------------------------------------------------------------
(* The app: upload, calculate, present *)

Init ==
    /\ fact_display \in DisplayTables
    /\ dim_storelist \in StoreTables
    /\ dim_model \in ModelTables
    /\ dim_posm \in PosmTables
    /\ price_posm \in PriceTables
    /\ final_df = Unset
    /\ province_summary_df = Unset
    /\ pc = "uploaded"
    /\ shown = [status |-> "info", posm_summary |-> Unset, address_summary |-> Unset]
    /\ call = NoCall

\* posm_summary_df, address_summary_df = calculate_posm_report(...)
Calculate ==
    /\ pc = "uploaded"
    /\ LET ret == calculate_posm_report(price_posm)
       IN  /\ final_df' = ret.final_df
           /\ province_summary_df' = ret.province_summary_df
    /\ pc' = "calculated"
    /\ UNCHANGED <<fact_display, dim_storelist, dim_model, dim_posm, price_posm,
                   shown, call>>

\* if posm_summary_df is not None and address_summary_df is not None: show both
ShowResults ==
    /\ pc = "calculated"
    /\ ~IsNone(final_df) /\ ~IsNone(province_summary_df)
    /\ shown' = [status |-> "success", posm_summary |-> final_df,
                 address_summary |-> province_summary_df]
    /\ pc' = "done"
    /\ UNCHANGED <<fact_display, dim_storelist, dim_model, dim_posm, price_posm,
                   final_df, province_summary_df, call>>

\* else: st.error("Calculation failed ...")
ShowError ==
    /\ pc = "calculated"
    /\ ~(~IsNone(final_df) /\ ~IsNone(province_summary_df))
    /\ shown' = [status |-> "error", posm_summary |-> Unset, address_summary |-> Unset]
    /\ pc' = "done"
    /\ UNCHANGED <<fact_display, dim_storelist, dim_model, dim_posm, price_posm,
                   final_df, province_summary_df, call>>

Next == Calculate \/ ShowResults \/ ShowError

Spec == Init /\ [][Next]_vars

----------------------------------------------------------------------------
(* The helper functions called directly *)

FnInit ==
    /\ fact_display = << >>
    /\ dim_storelist = {}
    /\ dim_model = {}
    /\ dim_posm = {}
    /\ price_posm = {}
    /\ final_df = Unset
    /\ province_summary_df = Unset
    /\ pc = "idle"
    /\ shown = [status |-> "info", posm_summary |-> Unset, address_summary |-> Unset]
    /\ call \in [fn : {"args"}, quantity : 0..MaxQty, original : {0},
                 priority : {1, 2, 3}, ret : {0}, range : {""}]

CallApplyQuantityRules ==
    /\ call.fn = "args"
    /\ call' = [call EXCEPT !.fn = "apply_quantity_rules",
                            !.ret = apply_quantity_rules(call.quantity, call.priority)]
    /\ UNCHANGED report_vars

CallGetPriceRange ==
    /\ call.fn = "args"
    /\ call' = [call EXCEPT !.fn = "get_price_range",
                            !.range = get_price_range(call.quantity)]
    /\ UNCHANGED report_vars

FnNext == CallApplyQuantityRules \/ CallGetPriceRange

FnSpec == FnInit /\ [][FnNext]_vars

\* calculate_send_quantity called directly, on every pair original <= adjusted
SendInit ==
    /\ fact_display = << >>
    /\ dim_storelist = {}
    /\ dim_model = {}
    /\ dim_posm = {}
    /\ price_posm = {}
    /\ final_df = Unset
    /\ province_summary_df = Unset
    /\ pc = "idle"
    /\ shown = [status |-> "info", posm_summary |-> Unset, address_summary |-> Unset]
    /\ \E q \in 0..MaxSendQty : \E o \in 0..q :
          call = [fn |-> "args", quantity |-> q, original |-> o, priority |-> 1,
                  ret |-> 0, range |-> ""]

CallCalculateSendQuantity ==
    /\ call.fn = "args"
    /\ call' = [call EXCEPT !.fn = "calculate_send_quantity",
                            !.ret = calculate_send_quantity(call.quantity, call.original)]
    /\ UNCHANGED report_vars

SendNext == CallCalculateSendQuantity

SendSpec == SendInit /\ [][SendNext]_vars

----------------------------------------------------------------------------
(* Properties: the quantity rules and the price bands (FnSpec) *)

\* C3: apply_quantity_rules(qty, 1) is the least multiple of 10 that is at least
\* 1.3 * qty, or 210 when that is smaller: always >= 210 and a multiple of 10.
C3_PriorityOneRule ==
    (call.fn = "apply_quantity_rules" /\ call.priority = 1) =>
        /\ call.ret >= 210
        /\ call.ret % 10 = 0
        /\ \/ call.ret = 210 /\ 13 * call.quantity <= 2100
           \/ /\ call.ret > 210
              /\ 10 * call.ret >= 13 * call.quantity
              /\ 10 * (call.ret - 10) < 13 * call.quantity

\* a priority-1 call whose buffered, rounded quantity exceeds the minimum
C3_Witness ==
    /\ call.fn = "apply_quantity_rules" /\ call.priority = 1
    /\ call.quantity = 170 /\ call.ret = 230

\* C4: apply_quantity_rules(qty, 2) is the least multiple of 5 that is at least
\* qty: no buffer, no minimum, 0 for 0.
C4_PriorityTwoRule ==
    (call.fn = "apply_quantity_rules" /\ call.priority = 2) =>
        /\ call.ret % 5 = 0
        /\ call.ret >= call.quantity
        /\ call.ret < call.quantity + 5
        /\ (call.quantity = 0 => call.ret = 0)

\* a priority-2 call that had to round up
C4_Witness ==
    /\ call.fn = "apply_quantity_rules" /\ call.priority = 2
    /\ call.quantity % 5 # 0 /\ call.ret > call.quantity

\* the 8 bands as the specification lists them; hi = -1 for the open band
SpecBands == <<
    [lo |-> 0,    hi |-> 200,  label |-> "<200"],
    [lo |-> 201,  hi |-> 500,  label |-> "201-500"],
    [lo |-> 501,  hi |-> 1000, label |-> "501-1000"],
    [lo |-> 1001, hi |-> 2000, label |-> "1001 - 2000"],
    [lo |-> 2001, hi |-> 3000, label |-> "2001 - 3000"],
    [lo |-> 3001, hi |-> 4000, label |-> "3001 - 4000"],
    [lo |-> 4001, hi |-> 5000, label |-> "4001 - 5000"],
    [lo |-> 5001, hi |-> -1,   label |-> ">5000"] >>

InSpecBand(k, q) ==
    SpecBands[k].lo <= q /\ (SpecBands[k].hi = -1 \/ q <= SpecBands[k].hi)

\* C5: get_price_range returns the label of the one band that holds the quantity:
\* exactly one band holds it, the two sides of a boundary get different adjacent
\* bands, and everything from 5001 on is in the top band.
C5_PriceBandPartition ==
    call.fn = "get_price_range" =>
        LET q == call.quantity
            holding == {k \in DOMAIN SpecBands : InSpecBand(k, q)}
        IN  /\ Cardinality(holding) = 1
            /\ \A k \in holding :
                  /\ call.range = SpecBands[k].label
                  /\ (k < Len(SpecBands) /\ q = SpecBands[k].hi) =>
                        get_price_range(q + 1) = SpecBands[k + 1].label
            /\ \A j \in DOMAIN SpecBands, k \in DOMAIN SpecBands :
                  j # k => SpecBands[j].label # SpecBands[k].label
            /\ (q >= 5001 => call.range = ">5000")

\* a call on the upper end of a band
C5_Witness ==
    call.fn = "get_price_range" /\ call.quantity = 5000 /\ call.range = "4001 - 5000"

----------------------------------------------------------------------------
(* Properties: the fallback send rule (SendSpec) *)

\* C11 (as claimed): the fallback send quantity is 70% of the adjusted quantity
\* rounded up to a multiple of 10, then clamped to [raw, adjusted].
C11_RoundThenClamp ==
    call.fn = "calculate_send_quantity" =>
        LET rounded == CeilDiv(7 * call.quantity, 100) * 10
            lower == IF rounded >= call.original THEN rounded ELSE call.original
        IN  call.ret = (IF lower <= call.quantity THEN lower ELSE call.quantity)

\* the adjusted quantities below 650 whose product with the double 0.7 falls
\* just short of the integer 7 * quantity / 10
ShortProducts == {90, 170, 180, 330, 340, 350, 360}

\* C11 (amended): the fallback send quantity is min(adjusted, r), where r is the
\* least multiple of 10 that is at least max(t, raw) and t is int(adjusted * 0.7):
\* the 70% figure is truncated to an integer and raised to the raw quantity
\* first, the rounding up to 10 comes after, and only the upper bound is applied
\* to the rounded value.
C11_TruncateRaiseRoundCap ==
    (call.fn = "calculate_send_quantity" /\ call.quantity < 650) =>
        LET t == IF call.quantity \in ShortProducts
                 THEN (7 * call.quantity) \div 10 - 1
                 ELSE (7 * call.quantity) \div 10
            m == IF t >= call.original THEN t ELSE call.original
        IN  \E r \in 0..(call.quantity + 10) :
                /\ r % 10 = 0
                /\ r >= m
                /\ r - 10 < m
                /\ call.ret = (IF r <= call.quantity THEN r ELSE call.quantity)

\* raw 53 of adjusted 55: 38 is raised to 53, rounded up to 60 and capped at 55,
\* where rounding first and clamping after would give 53
C11_Witness ==
    /\ call.fn = "calculate_send_quantity"
    /\ call.quantity = 55 /\ call.original = 53 /\ call.ret = 55

----------------------------------------------------------------------------
(* Properties: the report (Spec) *)

\* the demand read directly off the uploaded tables
PrioritiesOf(model) == {d.priority : d \in {x \in dim_model : x.model = model}} \ {NaN}
PosmsOf(model) == {d.posm : d \in {x \in dim_posm : x.model = model}} \ {None}
ProvincesOf(shop) == {d.Province : d \in {x \in dim_storelist : x.shop = shop}} \ {None}

\* the display rows of a (posmType, priority) group
GroupRows(posm_type, priority) ==
    {r \in DisplayRows : posm_type \in PosmsOf(r.model) /\ priority \in PrioritiesOf(r.model)}
\* the display rows of a (region, posmType, priority) group
RegionGroupRows(region, posm_type, priority) ==
    {r \in GroupRows(posm_type, priority) : region \in ProvincesOf(r.shop)}

AllPriorities == UNION {PrioritiesOf(ModelNames[i]) : i \in DOMAIN ModelNames}
PrioritiesPresent(posm_type) ==
    {pr \in AllPriorities : GroupRows(posm_type, pr) # {}}
RegionPrioritiesPresent(region, posm_type) ==
    {pr \in AllPriorities : RegionGroupRows(region, posm_type, pr) # {}}

\* per-priority raw and adjusted demand of a POSM type
PriorityGroups(posm_type) ==
    {[priority |-> pr,
      raw |-> SumCol(GroupRows(posm_type, pr), "quantity"),
      adjusted |-> apply_quantity_rules(SumCol(GroupRows(posm_type, pr), "quantity"), pr)] :
        pr \in PrioritiesPresent(posm_type)}
RegionPriorityGroups(region, posm_type) ==
    {[priority |-> pr,
      raw |-> SumCol(RegionGroupRows(region, posm_type, pr), "quantity"),
      adjusted |->
          apply_quantity_rules(SumCol(RegionGroupRows(region, posm_type, pr), "quantity"), pr)] :
        pr \in RegionPrioritiesPresent(region, posm_type)}

\* C1: in every row of the POSM summary, send + backup is the adjusted quantity
\* and original <= send <= adjusted, so backup >= 0, whichever way send was found.
C1_SendBackupSplit ==
    IsFrame(final_df) =>
        \A row \in final_df.rows :
            /\ row.send + row.backup = row.quantity
            /\ row.original_quantity <= row.send
            /\ row.send <= row.quantity
            /\ row.backup >= 0

\* a summary with a row whose send quantity came from its province allocations
\* and a row that took the fallback rule and keeps a backup
C1_Witness ==
    /\ IsFrame(final_df) /\ IsFrame(province_summary_df)
    /\ \E row \in final_df.rows :
          /\ posm_send_quantities(row.posm, province_summary_df.rows) > 0
          /\ row.send = row.quantity
    /\ \E row \in final_df.rows :
          /\ posm_send_quantities(row.posm, province_summary_df.rows) = 0
          /\ row.original_quantity > 0
          /\ row.backup > 0

\* C2: the adjusted quantity of a POSM type is the sum, over the priorities
\* present for it, of the rule applied to the raw total of the (posmType,
\* priority) group; the original quantity is the sum of those raw totals; and
\* there is one row per POSM type that has such a group.
C2_RulePerPriorityGroup ==
    IsFrame(final_df) =>
        /\ \A row \in final_df.rows :
              /\ PrioritiesPresent(row.posm) # {}
              /\ row.quantity = SumCol(PriorityGroups(row.posm), "adjusted")
              /\ row.original_quantity = SumCol(PriorityGroups(row.posm), "raw")
        /\ \A r1 \in final_df.rows, r2 \in final_df.rows : r1.posm = r2.posm => r1 = r2

\* a POSM type with two priorities, where one rule applied to the total would
\* give another quantity whichever of the two rules is taken
C2_Witness ==
    /\ IsFrame(final_df)
    /\ \E row \in final_df.rows :
          /\ Cardinality(PrioritiesPresent(row.posm)) = 2
          /\ \A pr \in PrioritiesPresent(row.posm) :
                row.quantity # apply_quantity_rules(row.original_quantity, pr)

\* no price row for the POSM type in the band of the quantity
NoTier(posm_type, quantity) ==
    ~\E r \in price_posm : r.posm = posm_type /\ r.range = get_price_range(quantity)

\* C6: a lookup that finds no price row for the band gives unit price 0 and
\* cost 0; the run still returns both tables; the POSM summary has a row for
\* every POSM type with demand; and a row of the summary is the same under every
\* price table that differs only in the rows of other POSM types.
C6_MissingTierZeroCost ==
    (pc = "calculated" /\ ~Raises) =>
        /\ IsFrame(final_df) /\ IsFrame(province_summary_df)
        /\ \A row \in final_df.rows :
              /\ NoTier(row.posm, row.quantity) =>
                    row.unit_price = 0 /\ row.total_cost = 0
              /\ NoTier(row.posm, row.original_quantity) =>
                    row.original_unit_price = 0 /\ row.original_total_cost = 0
        /\ {row.posm : row \in final_df.rows}
              = {p \in {"P1", "P2"} : PrioritiesPresent(p) # {}}
        /\ \A other \in PriceTables : \A row \in final_df.rows :
              {r \in other : r.posm = row.posm} = {r \in price_posm : r.posm = row.posm}
                  => row \in calculate_posm_report(other).final_df.rows

\* P1 has an adjusted demand of 210 and no price row for its band, while P2 is
\* priced: P1's row is there with zero cost, P2's row has its cost
C6_Witness ==
    /\ pc = "calculated" /\ IsFrame(final_df)
    /\ \E row \in final_df.rows :
          /\ row.posm = "P1" /\ row.quantity = 210
          /\ NoTier("P1", 210)
          /\ row.unit_price = 0 /\ row.total_cost = 0
    /\ \E row \in final_df.rows : row.posm = "P2" /\ row.total_cost > 0

\* a display row whose model needs a POSM type and has no priority in {1, 2}
InvalidPriorityDemand ==
    \E r \in DisplayRows :
        /\ PosmsOf(r.model) # {}
        /\ \/ \E d \in dim_model : d.model = r.model /\ d.priority \notin {1, 2}
           \/ ~\E d \in dim_model : d.model = r.model

\* C7 (as claimed): demand whose priority is outside {1, 2}, or missing, makes
\* calculate_posm_report abort with no result tables.
C7_InvalidPriorityAborts ==
    (pc = "calculated" /\ HasColumn(dim_posm, "posm") /\ InvalidPriorityDemand) =>
        IsNone(final_df) /\ IsNone(province_summary_df)

\* C8: the allocated quantity of a region row is the region's own adjusted
\* demand, the sum over the priorities present in the region of the rule applied
\* to the (region, posmType, priority) raw total; so the allocations of a POSM
\* type add up to the adjusted quantities of all its (region, priority) groups.
C8_AllocationIsRegionAdjusted ==
    IsFrame(province_summary_df) =>
        /\ \A a \in province_summary_df.rows :
              /\ a.allocated_quantity
                    = SumCol(RegionPriorityGroups(a.Province, a.posm), "adjusted")
              /\ a.needed_quantity
                    = SumCol(RegionPriorityGroups(a.Province, a.posm), "raw")
        /\ \A p \in {"P1", "P2"} :
              posm_send_quantities(p, province_summary_df.rows)
                = SumCol(UNION {{[Province |-> region, priority |-> g.priority,
                                  adjusted |-> g.adjusted] :
                                    g \in RegionPriorityGroups(region, p)} :
                                region \in {"R1", "R2"}},
                         "adjusted")

\* a POSM type needed in two regions, each allocated its own adjusted demand,
\* which is not its share of the POSM-level adjusted quantity
C8_Witness ==
    /\ IsFrame(province_summary_df) /\ IsFrame(final_df)
    /\ \E a \in province_summary_df.rows, b \in province_summary_df.rows,
          row \in final_df.rows :
          /\ a.posm = row.posm /\ b.posm = row.posm /\ a.Province # b.Province
          /\ a.needed_quantity > 0 /\ b.needed_quantity > 0
          /\ a.allocated_quantity * (a.needed_quantity + b.needed_quantity)
                # row.quantity * a.needed_quantity

\* C9: calculate_posm_report returns both tables or neither: whenever a
\* statement of the try block raises both are None, otherwise both are
\* DataFrames, and the app presents results only when it holds both.
C9_BothTablesOrNeither ==
    /\ IsNone(final_df) <=> IsNone(province_summary_df)
    /\ IsFrame(final_df) <=> IsFrame(province_summary_df)
    /\ pc # "uploaded" =>
          /\ Raises => IsNone(final_df) /\ IsNone(province_summary_df)
          /\ ~Raises => IsFrame(final_df) /\ IsFrame(province_summary_df)
    /\ shown.status = "success" =>
          /\ IsFrame(shown.posm_summary) /\ IsFrame(shown.address_summary)
          /\ shown.posm_summary = final_df
          /\ shown.address_summary = province_summary_df
    /\ (pc = "done" /\ IsNone(final_df)) => shown.status = "error"

\* the 'posm' sheet lacks its 'posm' column although there is demand to report:
\* the call returned (None, None) and the app reported the failure
C9_Witness ==
    /\ pc = "done"
    /\ ~HasColumn(dim_posm, "posm")
    /\ Len(fact_display) > 0
    /\ IsNone(final_df) /\ IsNone(province_summary_df)
    /\ shown.status = "error"

\* the end-to-end example: stores S1 (R1) and S2 (R2) display M1 (priority 1,
\* POSM P1) with quantities 100 and 50; the price table holds P1 at 5 for 201-500
C10_Example ==
    /\ fact_display = << [shop |-> "S1", model |-> "M1", quantity |-> 100],
                         [shop |-> "S2", model |-> "M1", quantity |-> 50] >>
    /\ dim_storelist = {[shop |-> "S1", Province |-> "R1"],
                        [shop |-> "S2", Province |-> "R2"]}
    /\ [model |-> "M1", priority |-> 1] \in dim_model
    /\ [model |-> "M1", posm |-> "P1"] \in dim_posm
    /\ price_posm = {[posm |-> "P1", name |-> "Poster", range |-> "201-500", price |-> 5]}

\* C10: on the example the POSM summary is one row for P1 with raw quantity 150,
\* adjusted quantity 210, adjusted unit price 5 and adjusted total cost 1050, and
\* the region summary is two rows: R1 needing 100 (100/150 of the total) and R2
\* needing 50 (50/150 of the total).
C10_EndToEndExample ==
    (C10_Example /\ pc = "calculated") =>
        /\ IsFrame(final_df) /\ IsFrame(province_summary_df)
        /\ Cardinality(final_df.rows) = 1
        /\ \A row \in final_df.rows :
              /\ row.posm = "P1"
              /\ row.original_quantity = 150
              /\ row.quantity = 210
              /\ row.unit_price = 5
              /\ row.total_cost = 1050
        /\ Cardinality(province_summary_df.rows) = 2
        /\ \E a \in province_summary_df.rows :
              /\ a.Province = "R1" /\ a.posm = "P1" /\ a.needed_quantity = 100
              /\ a.percentage_of_total.num * 150 = 100 * 100 * a.percentage_of_total.den
        /\ \E b \in province_summary_df.rows :
              /\ b.Province = "R2" /\ b.posm = "P1" /\ b.needed_quantity = 50
              /\ b.percentage_of_total.num * 150 = 50 * 100 * b.percentage_of_total.den

\* the example has been uploaded and calculated
C10_Witness ==
    C10_Example /\ pc = "calculated" /\ IsFrame(final_df)

\* every display record's store has a region in the store list
AllDisplayedHaveRegion == \A r \in DisplayRows : ProvincesOf(r.shop) # {}
\* every display record's model has a priority, and it is 1 or 2
AllPrioritiesValid ==
    \A r \in DisplayRows : PrioritiesOf(r.model) # {} /\ PrioritiesOf(r.model) \subseteq {1, 2}

\* C12: when every displayed store has a region and the priorities are 1 or 2,
\* the region allocations of a POSM type add up to at least its adjusted
\* quantity, so every row of the POSM summary has send = adjusted and backup = 0;
\* and a row with a positive backup either took the fallback rule or has demand
\* displayed in a store without a region.
C12_AllocationsCoverAdjusted ==
    (IsFrame(final_df) /\ IsFrame(province_summary_df)) =>
        /\ (AllDisplayedHaveRegion /\ AllPrioritiesValid) =>
              \A row \in final_df.rows :
                  /\ posm_send_quantities(row.posm, province_summary_df.rows)
                        >= row.quantity
                  /\ row.send = row.quantity
                  /\ row.backup = 0
        /\ \A row \in final_df.rows :
              row.backup > 0 =>
                  \/ posm_send_quantities(row.posm, province_summary_df.rows) = 0
                  \/ \E r \in DisplayRows :
                        row.posm \in PosmsOf(r.model) /\ ProvincesOf(r.shop) = {}

\* all stores have regions, and a POSM type displayed in two regions is
\* allocated more than its adjusted quantity: the upper clamp sets send
C12_Witness ==
    /\ IsFrame(final_df) /\ IsFrame(province_summary_df)
    /\ AllDisplayedHaveRegion /\ AllPrioritiesValid
    /\ \E row \in final_df.rows :
          /\ Cardinality({a \in province_summary_df.rows : a.posm = row.posm}) = 2
          /\ posm_send_quantities(row.posm, province_summary_df.rows) > row.quantity
          /\ row.original_quantity > 0
          /\ row.send = row.quantity /\ row.backup = 0

====
